---- MODULE Spec2Model ----
(***************************************************************************)
(* One benchmark investor (bench/investor.go) driven by the external       *)
(* scheduler and worker pool, against the exchange's order handlers        *)
(* (webapp/go/.../controller/handler.go).                                  *)
(*                                                                         *)
(* Time is a discrete clock `now`.  An order is a record                   *)
(*   [ID, Type, Amount, Price, Trade, ClosedAt]                            *)
(* where Trade = 0 stands for a nil *Trade and Trade = p > 0 for a trade   *)
(* settled at price p; ClosedAt is TRUE when the pointer is non-nil.       *)
(* A task is a record [kind, ot, amount, price, ref, by]; ref is the        *)
(* position in i.orders of the *Order a RemoveOrder task captured, by      *)
(* tells the UpdateOrders task that Info queued from the others.           *)
(***************************************************************************)
EXTENDS Integers, Sequences, FiniteSets, TLC

\* ---------------------------------------------------------------- constants

OrderCap == 5

TradeTypeSell == "sell"

TradeTypeBuy == "buy"

\* bench configuration (scores and intervals)
GetTopScore == 1

SignupScore == 3

SigninScore == 3

GetInfoScore == 1

GetOrdersScore == 1

PostOrdersScore == 5

DeleteOrdersScore == 5

PollingInterval == 1

OrderUpdateInterval == 2

\* the zero time.Time of pollingTime and lastOrder: long before the run
ZeroTime == -5

\* error messages and status codes
\* stands for the exchange's insufficient-bank-balance message
MsgCreditInsufficient == "credit insufficient"

MsgBankIDConflict == "bank_id conflict"

MsgBankIDExists == "bank_id already exists"

NoError == [msg |-> "", status |-> 0]

ErrorWithStatus(msg, status) == [msg |-> msg, status |-> status]

TransportError == ErrorWithStatus("transport", 0)

\* ------------------------------------------------------------------- bounds

MaxTime == 1

\* the clock of the run that takes the investor to the order cap
CapTime == 2

\* the calls of Next and the orders of the run in which placed orders vanish
VanishTicks == 3

VanishOrders == 3

\* the calls of Next and the orders of the run with two workers
PairTicks == 2

PairOrders == 1

MaxTicks == 3

MaxOrders == 2

MaxQueue == 1

\* the ticks of the run that takes the investor to the order cap
CapTicks == 6

\* the parameters NewRandomInvestor is given, and what the market may show
InitCredits == {5}

InitIsus == {0, 2}

CapIsus == {7}

PairIsus == {2}

InitUnitAmounts == {1}

InitUnitPrices == {3}

\* what the other users' orders and trades may show: their lowest sell price,
\* their highest buy price (0: none) and the last close of the chart (0: empty)
OtherMarkets == {<<0, 0, 0>>, <<2, 0, 2>>, <<0, 4, 0>>}

\* the other users' market in the run to the order cap
CapMarkets == {<<0, 0, 0>>, <<0, 4, 0>>}

WorkerIds == {"w1", "w2"}

\* the id of an order that belongs to another user of the exchange
OtherUsersOrder == 9

\* the orders the exchange may settle or close by itself in the run to the cap
CapEnvOrders == {1}

\* Four runs are explored.  In the general run every server call may fail and
\* the exchange trades and closes any order, with few orders; the run to the cap
\* has a reliable exchange that touches only the orders CapEnvOrders, and an
\* investor rich enough in inventory to place more than OrderCap orders.
GeneralRun ==
  [maxTime |-> MaxTime, maxTicks |-> MaxTicks, maxOrders |-> MaxOrders,
   faults |-> BOOLEAN, markets |-> OtherMarkets, env |-> 1..MaxOrders,
   retire |-> FALSE, isus |-> InitIsus, workers |-> {"w1"}, requests |-> {}]

CapRun ==
  [maxTime |-> CapTime, maxTicks |-> CapTicks, maxOrders |-> OrderCap + 1,
   faults |-> {FALSE}, markets |-> CapMarkets, env |-> CapEnvOrders,
   retire |-> FALSE, isus |-> CapIsus, workers |-> {"w1"}, requests |-> {}]

\* A third run has a reliable exchange that settles or loses the first two of
\* three sell orders, and answers requests to DELETE /order/:id that name an
\* order of the investor, an order of another user and an id never issued.  A
\* fourth run has two workers, so that two composites of the investor run at
\* the same time, an exchange that settles or closes the order placed, and a
\* client that may be retired at any time.
VanishRun ==
  [maxTime |-> 0, maxTicks |-> VanishTicks, maxOrders |-> VanishOrders,
   faults |-> {FALSE}, markets |-> {<<0, 0, 0>>}, env |-> 1..(VanishOrders - 1),
   retire |-> FALSE, isus |-> CapIsus, workers |-> {"w1"},
   requests |-> {1, VanishOrders + 1, OtherUsersOrder}]

PairRun ==
  [maxTime |-> MaxTime, maxTicks |-> PairTicks, maxOrders |-> PairOrders,
   faults |-> {FALSE}, markets |-> {<<0, 0, 0>>}, env |-> 1..PairOrders,
   retire |-> TRUE, isus |-> PairIsus, workers |-> WorkerIds, requests |-> {}]

\* ---------------------------------------------------------------- variables

VARIABLES
  defcredit, credit, resvedCredit, defisu, isu, resvedIsu, orders,
  lowestSellPrice, highestBuyPrice, latestTradePrice,
  isSignin, isStarted, lastCursor, pollingTime, lastOrder,
  pollingLock, actionLock, taskLock, taskStack,
  unitamount, unitprice,
  retired, now, registered, sorders,
  sched, ticks, ret, overlap, runq, workers, last, reply, cfg

econVars == <<credit, resvedCredit, isu, resvedIsu>>

marketVars == <<lowestSellPrice, highestBuyPrice, latestTradePrice>>

paramVars == <<defcredit, defisu, unitamount>>

lockVars == <<pollingLock, actionLock, taskLock>>

serverVars == <<registered, sorders>>

investorVars == <<econVars, orders, marketVars, isSignin, isStarted, lastCursor,
                  pollingTime, lastOrder, taskStack, unitprice, paramVars>>

vars == <<investorVars, lockVars, retired, now, serverVars,
          sched, ticks, ret, overlap, runq, workers, last, reply, cfg>>

Free == "free"

Scheduler == "sched"

\* ------------------------------------------------------------------- orders

NewOrder(id, ot, amount, price) ==
  [ID |-> id, Type |-> ot, Amount |-> amount, Price |-> price,
   Trade |-> 0, ClosedAt |-> FALSE]

\* Order.Removed: closed without a trade (cancelled)
Removed(o) == o.ClosedAt /\ o.Trade = 0

\* an order that is placed and neither settled nor closed
IsOpen(o) == ~o.ClosedAt /\ o.Trade = 0

Min(a, b) == IF a < b THEN a ELSE b

\* ---------------------------------------------------------------- exchange

\* Handler.userByRequest: no session, answered 401
NotAuthenticated == ErrorWithStatus("Not authenticated", 401)

\* isubank: the account's balance is the endowment plus the settled trades
BankCredit ==
  LET f[n \in 0..Len(sorders)] ==
        IF n = 0 THEN defcredit
        ELSE LET o == sorders[n] IN
             f[n-1] + (IF o.Trade = 0 THEN 0
                       ELSE IF o.Type = TradeTypeSell THEN o.Amount * o.Trade
                       ELSE 0 - o.Amount * o.Trade)
  IN f[Len(sorders)]

\* Handler.AddOrders: the error it answers with, NoError when the order is inserted
AddOrdersError(ot, amount, price) ==
  IF ~isSignin THEN NotAuthenticated
  ELSE IF amount <= 0 THEN ErrorWithStatus("amount is must be greater 0", 400)
  ELSE IF price <= 0 THEN ErrorWithStatus("price is must be greater 0", 400)
  ELSE IF ot = TradeTypeBuy
    THEN IF price * amount > BankCredit
           THEN ErrorWithStatus(MsgCreditInsufficient, 400)
           ELSE NoError
  ELSE IF ot = TradeTypeSell THEN NoError
  ELSE ErrorWithStatus("type must be sell or buy", 400)

\* Handler.DeleteOrders: the error it answers with, NoError when the order is closed
DeleteOrdersError(id) ==
  IF ~isSignin THEN NotAuthenticated
  ELSE IF id = OtherUsersOrder THEN ErrorWithStatus("not found", 404)
  ELSE IF id \notin 1..Len(sorders)
    THEN ErrorWithStatus("model.GetOrderByIDWithLock failed. id", 500)
  ELSE IF sorders[id].ClosedAt THEN ErrorWithStatus("already closed", 404)
  ELSE NoError

\* Handler.GetOrders: the user's orders that are open or traded, oldest first
VisibleOrder(o) == ~o.ClosedAt \/ o.Trade # 0

GetOrdersList == SelectSeq(sorders, VisibleOrder)

\* Handler.Info: the trades newer than the cursor, the cursor it answers and
\* whether it lists traded orders of the signed-in user
TradeCount == Cardinality({n \in 1..Len(sorders) : sorders[n].Trade # 0})

InfoCursor(cursor) == IF TradeCount > cursor THEN TradeCount ELSE cursor

InfoHasTradedOrders(cursor) == isSignin /\ TradeCount > cursor

\* Handler.Info: the best prices over the investor's own open orders and the
\* other users' orders (0 when there is no such order)
OwnOpen(ot) == {n \in 1..Len(sorders) : IsOpen(sorders[n]) /\ sorders[n].Type = ot}

InfoLowestSellPrice(other) ==
  LET ps == {sorders[n].Price : n \in OwnOpen(TradeTypeSell)} \cup
            (IF other > 0 THEN {other} ELSE {})
  IN IF ps = {} THEN 0 ELSE CHOOSE p \in ps : \A q \in ps : p <= q

InfoHighestBuyPrice(other) ==
  LET ps == {sorders[n].Price : n \in OwnOpen(TradeTypeBuy)} \cup
            (IF other > 0 THEN {other} ELSE {})
  IN IF ps = {} THEN 0 ELSE CHOOSE p \in ps : \A q \in ps : p >= q

\* -------------------------------------------------------------------- tasks

Task(kind, ot, amount, price, ref) ==
  [kind |-> kind, ot |-> ot, amount |-> amount, price |-> price, ref |-> ref,
   by |-> ""]

NoTask == Task("nil", "", 0, 0, 0)

Top == Task("Top", "", 0, 0, 0)

Signup == Task("Signup", "", 0, 0, 0)

Signin == Task("Signin", "", 0, 0, 0)

Info == Task("Info", "", 0, 0, 0)

UpdateOrders == Task("UpdateOrders", "", 0, 0, 0)

AddOrder(ot, amount, price) == Task("AddOrder", ot, amount, price, 0)

RemoveOrder(ref) == Task("RemoveOrder", "", 0, 0, ref)

FixNextTask == Task("FixNextTask", "", 0, 0, 0)

\* investorBase.Info: the i.UpdateOrders() it hands to pushNextTask
PolledUpdateOrders == [UpdateOrders EXCEPT !.by = "Info"]

\* a faulty variant of NextTasks: the queued tasks are added after the decision
NextTasksMutant(stack) == (<<Info>> \o <<FixNextTask>>) \o stack

\* investorBase.Start followed by RandomInvestor.Start's t.Add
StartTasks == <<Top, Info, Signup, Signin, UpdateOrders>> \o <<FixNextTask>>

\* investorBase.Next's composite followed by RandomInvestor.Next's t.Add
NextTasks(stack) == (<<Info>> \o stack) \o <<FixNextTask>>

\* a faulty variant of ClearedStack: the queue is not truncated
ClearedStackMutant(stack) == stack

\* investorBase.Next: i.taskStack = i.taskStack[:0]
ClearedStack(stack) == <<>>

\* investorBase.pushNextTask: append
PushedStack(stack, task) == Append(stack, task)

\* --------------------------------------------------------------------- Init

IdleWorker == [comp |-> <<>>, idx |-> 0, pc |-> "idle", push |-> <<>>, log |-> <<>>]

NoResult == [kind |-> "none", err |-> "none", score |-> 0, call |-> "none", msg |-> "",
             status |-> 0, pre |-> 0]

\* no request to DELETE /order/:id has been answered
NoReply == [id |-> 0, found |-> "none", status |-> 0, changed |-> FALSE]

Init ==
  /\ cfg \in {GeneralRun, CapRun, VanishRun, PairRun}
  /\ defcredit \in InitCredits
  /\ credit = defcredit
  /\ resvedCredit = 0
  /\ defisu \in cfg.isus
  /\ isu = defisu
  /\ resvedIsu = 0
  /\ orders = <<>>
  /\ lowestSellPrice = 0
  /\ highestBuyPrice = 0
  /\ latestTradePrice = 0
  /\ isSignin = FALSE
  /\ isStarted = FALSE
  /\ lastCursor = 0
  /\ pollingTime = ZeroTime
  /\ lastOrder = ZeroTime
  /\ pollingLock = Free
  /\ actionLock = Free
  /\ taskLock = Free
  /\ taskStack = <<>>
  /\ unitamount \in InitUnitAmounts
  /\ unitprice \in InitUnitPrices
  /\ retired = FALSE
  /\ now = 0
  /\ registered \in cfg.faults
  /\ sorders = <<>>
  /\ sched = "idle"
  /\ ticks = 0
  /\ ret = "none"
  /\ overlap = FALSE
  /\ runq = <<>>
  /\ workers = [w \in WorkerIds |-> IdleWorker]
  /\ last = NoResult
  /\ reply = NoReply

\* a faulty variant of IsRetired: retirement is never seen
IsRetiredMutant == FALSE

\* investorBase.IsRetired: i.c.IsRetired()
IsRetired == retired

\* an unrecovered panic ends the process
Alive == \A w \in WorkerIds : workers[w].pc # "panic"

\* ---------------------------------------------------------------- scheduler

\* RandomInvestor.Start, called once; the composite goes to the worker pool
Start ==
  /\ Alive
  /\ ~isStarted
  /\ sched = "idle"
  /\ isStarted' = TRUE
  /\ runq' = Append(runq, StartTasks)
  /\ UNCHANGED <<econVars, orders, marketVars, isSignin, lastCursor, pollingTime,
                 lastOrder, taskStack, unitprice, paramVars, lockVars, retired, now,
                 serverVars, sched, ticks, ret, overlap, workers, last, reply, cfg>>

\* RandomInvestor.Next on a retired investor: return nil
NextRetired ==
  /\ Alive
  /\ isStarted
  /\ sched = "idle"
  /\ ticks < cfg.maxTicks
  /\ IsRetired
  /\ ticks' = ticks + 1
  /\ ret' = "nil"
  /\ UNCHANGED <<investorVars, lockVars, retired, now, serverVars, sched, overlap,
                 runq, workers, last, reply, cfg>>

\* RandomInvestor.Next passes its own check; investorBase.Next takes taskLock
NextLock ==
  /\ Alive
  /\ isStarted
  /\ sched = "idle"
  /\ ticks < cfg.maxTicks
  /\ Len(runq) < MaxQueue
  /\ ~IsRetired
  /\ taskLock = Free
  /\ taskLock' = Scheduler
  /\ sched' = "locked"
  /\ UNCHANGED <<investorVars, pollingLock, actionLock, retired, now, serverVars,
                 ticks, ret, overlap, runq, workers, last, reply, cfg>>

\* a composite issued earlier is still waiting in the pool or being run
Busy == runq # <<>> \/ \E w \in WorkerIds : workers[w].pc \notin {"idle", "failed"}

\* investorBase.Next under taskLock, then RandomInvestor.Next's t.Add and return;
\* overlap records that some composite was issued while an earlier one was unfinished
NextBody ==
  /\ Alive
  /\ sched = "locked"
  /\ taskLock' = Free
  /\ sched' = "idle"
  /\ ticks' = ticks + 1
  /\ IF IsRetired
       THEN /\ ret' = "nil"
            /\ UNCHANGED <<taskStack, runq, overlap>>
       ELSE /\ ret' = "task"
            /\ overlap' = (overlap \/ Busy)
            /\ runq' = Append(runq, NextTasks(taskStack))
            /\ taskStack' = ClearedStack(taskStack)
  /\ UNCHANGED <<econVars, orders, marketVars, isSignin, isStarted, lastCursor,
                 pollingTime, lastOrder, unitprice, paramVars, pollingLock, actionLock,
                 retired, now, serverVars, workers, last, reply, cfg>>

\* ------------------------------------------------------------- worker pool

schedVars == <<sched, ticks, ret, overlap, runq, reply, cfg>>

Cur(w) == workers[w].comp[workers[w].idx]

Running(w, pc, kind) ==
  /\ Alive
  /\ workers[w].pc = pc
  /\ Cur(w).kind = kind

\* taskworker.ExecTask: the fixed score when the function returns no error
ExecScore(err, score) == IF err = "none" THEN score ELSE 0

\* a faulty variant of SerialRun: an error does not stop the composite
SerialRunMutant(r, err) ==
  LET lg == Append(r.log, r.comp[r.idx].kind) IN
  IF err = "panic" THEN [r EXCEPT !.pc = "panic", !.log = lg, !.push = <<>>]
  ELSE IF r.idx = Len(r.comp) THEN IdleWorker
  ELSE [r EXCEPT !.pc = "ready", !.idx = r.idx + 1, !.log = lg, !.push = <<>>]

\* taskworker.SerialTask.Run after the task at idx has returned err: go on to the
\* next task, finish after the last one, stop at the first error
SerialRun(r, err) ==
  LET lg == Append(r.log, r.comp[r.idx].kind) IN
  IF err = "panic" THEN [r EXCEPT !.pc = "panic", !.log = lg, !.push = <<>>]
  ELSE IF err = "error" THEN [r EXCEPT !.pc = "failed", !.log = lg, !.push = <<>>]
  ELSE IF r.idx = Len(r.comp) THEN IdleWorker
  ELSE [r EXCEPT !.pc = "ready", !.idx = r.idx + 1, !.log = lg, !.push = <<>>]

\* the local orders known to be settled
SettledCount(os) == Cardinality({n \in 1..Len(os) : os[n].Trade # 0})

\* the running task returns (score, err) having made the server call `call`, which
\* the client answered with error e; pre records, for UpdateOrders, how many local
\* orders were settled before it ran
Return(w, err, score, call, e) ==
  /\ workers' = [workers EXCEPT ![w] = SerialRun(workers[w], err)]
  /\ last' = [kind |-> Cur(w).kind, err |-> err, score |-> score, call |-> call,
               msg |-> e.msg, status |-> e.status,
               pre |-> IF Cur(w).kind = "UpdateOrders" THEN SettledCount(orders) ELSE 0]

SetPc(w, pc) == workers' = [workers EXCEPT ![w].pc = pc]

\* a worker takes the next composite from the pool's queue
Pick(w) ==
  /\ Alive
  /\ w \in cfg.workers
  /\ workers[w].pc \in {"idle", "failed"}
  /\ runq # <<>>
  /\ workers' = [workers EXCEPT ![w] =
                   [comp |-> Head(runq), idx |-> 1, pc |-> "ready",
                    push |-> <<>>, log |-> <<>>]]
  /\ runq' = Tail(runq)
  /\ UNCHANGED <<investorVars, lockVars, retired, now, serverVars, sched, ticks,
                 ret, overlap, last, reply, cfg>>

\* investorBase.Top
TopRun(w) ==
  /\ Running(w, "ready", "Top")
  /\ \E fail \in cfg.faults :
       LET err == IF fail THEN "error" ELSE "none" IN
       Return(w, err, ExecScore(err, GetTopScore), "Top",
              IF fail THEN TransportError ELSE NoError)
  /\ UNCHANGED <<investorVars, lockVars, retired, now, serverVars, schedVars>>

\* Handler.Signin for this bank id and its password
SigninError ==
  IF registered THEN NoError ELSE ErrorWithStatus("bank_id or password is not match", 404)

\* investorBase.Signin
SigninRun(w) ==
  /\ Running(w, "ready", "Signin")
  /\ \E fail \in cfg.faults :
       LET e == IF fail THEN TransportError ELSE SigninError
           err == IF e = NoError THEN "none" ELSE "error"
       IN /\ isSignin' = (IF err = "none" THEN TRUE ELSE isSignin)
          /\ Return(w, err, ExecScore(err, SigninScore), "Signin", e)
  /\ UNCHANGED <<econVars, orders, marketVars, isStarted, lastCursor, pollingTime,
                 lastOrder, taskStack, unitprice, paramVars, lockVars, retired, now,
                 serverVars, schedVars>>

\* i.actionLock.Lock() at the head of Signup, UpdateOrders, AddOrder, RemoveOrder
\* and UpdateOrderTask
LockAction(w) ==
  /\ Alive
  /\ workers[w].pc = "ready"
  /\ Cur(w).kind \in {"Signup", "UpdateOrders", "AddOrder", "RemoveOrder", "FixNextTask"}
  /\ actionLock = Free
  /\ actionLock' = w
  /\ SetPc(w, "locked")
  /\ UNCHANGED <<investorVars, pollingLock, taskLock, retired, now, serverVars,
                 schedVars, last>>

\* i.pollingLock.Lock() at the head of Info
LockPolling(w) ==
  /\ Running(w, "ready", "Info")
  /\ pollingLock = Free
  /\ pollingLock' = w
  /\ SetPc(w, "locked")
  /\ UNCHANGED <<investorVars, actionLock, taskLock, retired, now, serverVars,
                 schedVars, last>>

\* strings.Index(err.Error(), needle) > -1
Contains(err, needle) == err.msg = needle

\* Handler.Signup for this bank id
SignupError == IF registered THEN ErrorWithStatus(MsgBankIDConflict, 409) ELSE NoError

\* investorBase.Signup
SignupBody(w) ==
  /\ Running(w, "locked", "Signup")
  /\ actionLock' = Free
  /\ IF isSignin
       THEN /\ Return(w, "none", 0, "none", NoError)
            /\ UNCHANGED registered
       ELSE \E fail \in cfg.faults :
              LET e == IF fail THEN TransportError ELSE SignupError IN
              /\ registered' = (IF e = NoError THEN TRUE ELSE registered)
              /\ IF e = NoError \/ Contains(e, MsgBankIDExists)
                   THEN Return(w, "none", SignupScore, "Signup", e)
                   ELSE Return(w, "error", 0, "Signup", e)
  /\ UNCHANGED <<investorVars, pollingLock, taskLock, retired, now, sorders,
                 schedVars>>

\* a faulty variant of InfoSkips: the poll is skipped only a whole interval early
InfoSkipsMutant == now + PollingInterval < pollingTime

\* investorBase.Info: now.Before(i.pollingTime)
InfoSkips == now < pollingTime

\* investorBase.Info

InfoBody(w) ==
  /\ Running(w, "locked", "Info")
  /\ IF IsRetired \/ InfoSkips
       THEN /\ Return(w, "none", 0, "none", NoError)
            /\ pollingLock' = Free
            /\ UNCHANGED <<marketVars, lastCursor, pollingTime>>
       ELSE \E fail \in cfg.faults, m \in cfg.markets :
              IF fail
                THEN /\ Return(w, "error", 0, "Info", TransportError)
                     /\ pollingLock' = Free
                     /\ UNCHANGED <<marketVars, lastCursor, pollingTime>>
                ELSE /\ pollingTime' = now + PollingInterval
                     /\ lowestSellPrice' = InfoLowestSellPrice(m[1])
                     /\ highestBuyPrice' = InfoHighestBuyPrice(m[2])
                     /\ lastCursor' = InfoCursor(lastCursor)
                     /\ latestTradePrice' = (IF m[3] > 0 THEN m[3] ELSE latestTradePrice)
                     /\ IF InfoHasTradedOrders(lastCursor)
                          THEN /\ workers' = [workers EXCEPT ![w].pc = "push",
                                                             ![w].push = <<PolledUpdateOrders>>]
                               /\ UNCHANGED <<pollingLock, last>>
                          ELSE /\ Return(w, "none", GetInfoScore, "Info", NoError)
                               /\ pollingLock' = Free
  /\ UNCHANGED <<econVars, orders, isSignin, isStarted, lastOrder, taskStack, unitprice,
                 paramVars, actionLock, taskLock, retired, now, serverVars, schedVars>>

\* investorBase.pushNextTask: i.taskLock.Lock()
PushLock(w) ==
  /\ Alive
  /\ workers[w].pc = "push"
  /\ taskLock = Free
  /\ taskLock' = w
  /\ SetPc(w, "pushlocked")
  /\ UNCHANGED <<investorVars, pollingLock, actionLock, retired, now, serverVars,
                 schedVars, last>>

\* a faulty variant of PushUnlock: taskLock is kept after the append
PushUnlockMutant(w) == w

\* investorBase.pushNextTask: defer i.taskLock.Unlock()
PushUnlock(w) == Free

\* investorBase.pushNextTask: append and unlock; after the last push the pushing
\* task (Info, FixNextTask) returns
PushBody(w) ==
  /\ Alive
  /\ workers[w].pc = "pushlocked"
  /\ taskLock' = PushUnlock(w)
  /\ taskStack' = PushedStack(taskStack, Head(workers[w].push))
  /\ IF Len(workers[w].push) > 1
       THEN /\ workers' = [workers EXCEPT ![w].pc = "push",
                                          ![w].push = Tail(workers[w].push)]
            /\ UNCHANGED <<pollingLock, last>>
       ELSE IF Cur(w).kind = "Info"
         THEN /\ Return(w, "none", GetInfoScore, "Info", NoError)
              /\ pollingLock' = Free
         ELSE /\ Return(w, "none", ExecScore("none", 0), "none", NoError)
              /\ UNCHANGED pollingLock
  /\ UNCHANGED <<econVars, orders, marketVars, isSignin, isStarted, lastCursor,
                 pollingTime, lastOrder, unitprice, paramVars, actionLock, retired, now,
                 serverVars, schedVars>>

\* ------------------------------------------------------------ UpdateOrders

\* the position in the GetOrders answer of the order with this id, 0 when absent
FindOrder(resp, id) ==
  IF \E n \in 1..Len(resp) : resp[n].ID = id
    THEN CHOOSE n \in 1..Len(resp) : resp[n].ID = id /\ \A m \in 1..(n-1) : resp[m].ID # id
    ELSE 0

\* UpdateOrders, the check of the most recent local order against the answer:
\* "ok", "error" (ids differ) or "panic" (orders[len(orders)-1] of an empty answer)
LastOrderCheck(os, resp) ==
  IF Len(os) > 0 /\ os[Len(os)].Type = TradeTypeSell
    THEN IF Len(resp) = 0 THEN "panic"
         ELSE IF os[Len(os)].ID # resp[Len(resp)].ID THEN "error"
         ELSE "ok"
    ELSE "ok"

\* a faulty variant of Account: an open buy reserves its amount, not its cost
AccountReserveMutant(q, order) ==
  IF order.Trade # 0 /\ order.Type = TradeTypeSell
    THEN [q EXCEPT !.tradedIsu = @ - order.Amount,
                   !.tradedCredit = @ + order.Amount * order.Trade]
  ELSE IF order.Trade # 0 /\ order.Type = TradeTypeBuy
    THEN [q EXCEPT !.tradedIsu = @ + order.Amount,
                   !.tradedCredit = @ - order.Amount * order.Trade]
  ELSE IF order.Type = TradeTypeSell
    THEN [q EXCEPT !.resvedIsu = @ + order.Amount]
  ELSE IF order.Type = TradeTypeBuy
    THEN [q EXCEPT !.resvedCredit = @ + order.Amount]
  ELSE q

\* a faulty variant of Account: a settled buy is credited instead of debited
AccountMutant(q, order) ==
  IF order.Trade # 0 /\ order.Type = TradeTypeSell
    THEN [q EXCEPT !.tradedIsu = @ - order.Amount,
                   !.tradedCredit = @ + order.Amount * order.Trade]
  ELSE IF order.Trade # 0 /\ order.Type = TradeTypeBuy
    THEN [q EXCEPT !.tradedIsu = @ + order.Amount,
                   !.tradedCredit = @ + order.Amount * order.Trade]
  ELSE IF order.Type = TradeTypeSell
    THEN [q EXCEPT !.resvedIsu = @ + order.Amount]
  ELSE IF order.Type = TradeTypeBuy
    THEN [q EXCEPT !.resvedCredit = @ + order.Amount * order.Price]
  ELSE q

\* UpdateOrders, the switch over the server's order: the four sums after it
Account(q, order) ==
  IF order.Trade # 0 /\ order.Type = TradeTypeSell
    THEN [q EXCEPT !.tradedIsu = @ - order.Amount,
                   !.tradedCredit = @ + order.Amount * order.Trade]
  ELSE IF order.Trade # 0 /\ order.Type = TradeTypeBuy
    THEN [q EXCEPT !.tradedIsu = @ + order.Amount,
                   !.tradedCredit = @ - order.Amount * order.Trade]
  ELSE IF order.Type = TradeTypeSell
    THEN [q EXCEPT !.resvedIsu = @ + order.Amount]
  ELSE IF order.Type = TradeTypeBuy
    THEN [q EXCEPT !.resvedCredit = @ + order.Amount * order.Price]
  ELSE q

\* a faulty variant of MissingOrder: a missing buy is not marked closed
MissingOrderMutant(p, n, o) ==
  IF o.Type = TradeTypeSell THEN [p EXCEPT !.err = TRUE] ELSE p

\* UpdateOrders, order == nil: a sell is an error, any other order is closed now
MissingOrder(p, n, o) ==
  IF o.Type = TradeTypeSell
    THEN [p EXCEPT !.err = TRUE]
    ELSE [p EXCEPT !.orders[n].ClosedAt = TRUE]

\* UpdateOrders, the loop over i.orders: the local orders as the loop leaves them,
\* the four sums, and whether it returned early with the missing-sell error
MergeOrders(os, resp) ==
  LET f[n \in 0..Len(os)] ==
        IF n = 0
          THEN [err |-> FALSE, orders |-> os, resvedCredit |-> 0, resvedIsu |-> 0,
                tradedCredit |-> 0, tradedIsu |-> 0]
          ELSE LET p == f[n-1]
                   o == os[n]
                   k == FindOrder(resp, o.ID)
               IN IF p.err \/ Removed(o) THEN p
                  ELSE IF k = 0 THEN MissingOrder(p, n, o)
                  ELSE Account([p EXCEPT !.orders[n] = resp[k]], resp[k])
  IN f[Len(os)]

\* investorBase.UpdateOrders
UpdateOrdersBody(w) ==
  /\ Running(w, "locked", "UpdateOrders")
  /\ actionLock' = Free
  /\ \E fail \in cfg.faults :
       IF fail \/ ~isSignin
         THEN /\ Return(w, "error", 0, "GetOrders",
                        IF fail THEN TransportError ELSE NotAuthenticated)
              /\ UNCHANGED <<econVars, orders>>
         ELSE LET resp == GetOrdersList
                  chk == LastOrderCheck(orders, resp)
                  m == MergeOrders(orders, resp)
              IN IF chk # "ok"
                   THEN /\ Return(w, chk, 0, "GetOrders", NoError)
                        /\ UNCHANGED <<econVars, orders>>
                   ELSE /\ orders' = m.orders
                        /\ IF m.err
                             THEN /\ Return(w, "error", 0, "GetOrders", NoError)
                                  /\ UNCHANGED econVars
                             ELSE /\ resvedIsu' = m.resvedIsu
                                  /\ resvedCredit' = m.resvedCredit
                                  /\ credit' = defcredit + m.tradedCredit
                                  /\ isu' = defisu + m.tradedIsu
                                  /\ Return(w, "none", ExecScore("none", GetOrdersScore),
                                            "GetOrders", NoError)
  /\ UNCHANGED <<marketVars, isSignin, isStarted, lastCursor, pollingTime, lastOrder,
                 taskStack, unitprice, paramVars, pollingLock, taskLock, retired, now,
                 serverVars, schedVars>>

\* ------------------------------------------------- AddOrder and RemoveOrder

\* a faulty variant of AddOrderTaskError: the insufficient balance is not tolerated
AddOrderTaskErrorMutant(e) == IF e = NoError THEN "none" ELSE "error"

\* investorBase.AddOrder: the error the task returns for the client's error
AddOrderTaskError(e) ==
  IF e = NoError THEN "none"
  ELSE IF Contains(e, MsgCreditInsufficient) THEN "none"
  ELSE "error"

\* investorBase.AddOrder
AddOrderBody(w) ==
  /\ Running(w, "locked", "AddOrder")
  /\ actionLock' = Free
  /\ \E fail \in cfg.faults :
       LET t == Cur(w)
           e == IF fail THEN TransportError ELSE AddOrdersError(t.ot, t.amount, t.price)
           id == Len(sorders) + 1
           err == AddOrderTaskError(e)
       IN /\ e = NoError => Len(sorders) < cfg.maxOrders
          /\ IF e = NoError
               THEN /\ sorders' = Append(sorders, NewOrder(id, t.ot, t.amount, t.price))
                    /\ orders' = Append(orders, NewOrder(id, t.ot, t.amount, t.price))
                    /\ lastOrder' = now
               ELSE UNCHANGED <<sorders, orders, lastOrder>>
          /\ Return(w, err, ExecScore(err, PostOrdersScore), "AddOrder", e)
  /\ UNCHANGED <<econVars, marketVars, isSignin, isStarted, lastCursor, pollingTime,
                 taskStack, unitprice, paramVars, pollingLock, taskLock, retired, now,
                 registered, schedVars>>

\* investorBase.RemoveOrder: the loop that marks the local order closed
MarkClosed(os, id) ==
  LET k == FindOrder(os, id) IN
  IF k = 0 THEN os ELSE [os EXCEPT ![k].ClosedAt = TRUE]

\* a faulty variant of RemoveOrderTaskError: a 404 is not tolerated
RemoveOrderTaskErrorMutant(e) == "error"

\* investorBase.RemoveOrder: the error the task returns for the client's error
RemoveOrderTaskError(e) == IF e.status = 404 THEN "none" ELSE "error"

\* investorBase.RemoveOrder
RemoveOrderBody(w) ==
  /\ Running(w, "locked", "RemoveOrder")
  /\ actionLock' = Free
  /\ LET order == orders[Cur(w).ref] IN
     IF Removed(order)
       THEN /\ Return(w, "none", 0, "none", NoError)
            /\ UNCHANGED <<orders, sorders>>
       ELSE \E fail \in cfg.faults :
              LET e == IF fail THEN TransportError ELSE DeleteOrdersError(order.ID) IN
              IF e = NoError
                THEN /\ sorders' = [sorders EXCEPT ![order.ID].ClosedAt = TRUE]
                     /\ orders' = MarkClosed(orders, order.ID)
                     /\ Return(w, "none", DeleteOrdersScore, "DeleteOrders", e)
                ELSE /\ UNCHANGED <<orders, sorders>>
                     /\ Return(w, RemoveOrderTaskError(e), 0, "DeleteOrders", e)
  /\ UNCHANGED <<econVars, marketVars, isSignin, isStarted, lastCursor, pollingTime,
                 lastOrder, taskStack, unitprice, paramVars, pollingLock, taskLock,
                 retired, now, registered, schedVars>>

\* ---------------------------------------------------------- decision policy

\* UpdateOrderTask: update := len(i.orders) == 0 || lastOrder + interval after now
UpdateGate == Len(orders) = 0 \/ lastOrder + OrderUpdateInterval > now

\* UpdateOrderTask, the cap branch: mdiff of one order
Margin(o) ==
  IF o.Type = TradeTypeSell THEN o.Price - highestBuyPrice
  ELSE lowestSellPrice - o.Price

\* UpdateOrderTask, the cap branch: the loop that picks the order to release
\* (o == nil || df < mdiff), as the position of the picked order
ReleaseRef(os) ==
  LET f[n \in 0..Len(os)] ==
        IF n = 0 THEN [ref |-> 0, df |-> 0]
        ELSE IF f[n-1].ref = 0 \/ f[n-1].df < Margin(os[n])
          THEN [ref |-> n, df |-> Margin(os[n])]
          ELSE f[n-1]
  IN f[Len(os)].ref

\* rand.Int63n(n) + 1, then capped at unitamount
RandomAmounts(n) == {Min(unitamount, a) : a \in 1..n}

Decision(task, price) == [task |-> task, unitprice |-> price]

\* a faulty variant of AtCap: the cap is tested one order too late
AtCapMutant(os) == Len(os) > OrderCap

\* UpdateOrderTask: case len(i.orders) >= OrderCap
AtCap(os) == Len(os) >= OrderCap

\* a faulty variant of FirstOrder: the two first-order branches are exchanged
FirstOrderMutant(logicalIsu) ==
  IF logicalIsu > unitamount
    THEN AddOrder(TradeTypeBuy, unitamount, unitprice)
    ELSE AddOrder(TradeTypeSell, unitamount, unitprice)

\* UpdateOrderTask, the first-order branches (len(i.orders) == 0)
FirstOrder(logicalIsu) ==
  IF logicalIsu > unitamount
    THEN AddOrder(TradeTypeSell, unitamount, unitprice)
    ELSE AddOrder(TradeTypeBuy, unitamount, unitprice)

\* RandomInvestor.UpdateOrderTask: every (task, unitprice) it can return
UpdateOrderTask ==
  LET logicalCredit == credit - resvedCredit
      logicalIsu == isu - resvedIsu
  IN IF IsRetired \/ ~UpdateGate THEN {Decision(NoTask, unitprice)}
     ELSE IF AtCap(orders)
       THEN {Decision(RemoveOrder(ReleaseRef(orders)), unitprice)}
     ELSE IF Len(orders) = 0
       THEN {Decision(FirstOrder(logicalIsu), unitprice)}
     ELSE IF lowestSellPrice > 0 /\ lowestSellPrice < unitprice
             /\ lowestSellPrice <= logicalCredit
       THEN {Decision(AddOrder(TradeTypeBuy, a, lowestSellPrice), unitprice) :
               a \in RandomAmounts(logicalCredit \div lowestSellPrice)}
     ELSE IF highestBuyPrice > 0 /\ highestBuyPrice > unitprice /\ logicalIsu > 0
       THEN {Decision(AddOrder(TradeTypeSell, a, highestBuyPrice), unitprice) :
               a \in RandomAmounts(logicalIsu)}
     ELSE IF logicalIsu > unitamount
       THEN {Decision(AddOrder(TradeTypeSell, a,
                               IF lowestSellPrice = 0 THEN unitprice
                               ELSE (lowestSellPrice + unitprice) \div 2), unitprice) :
               a \in RandomAmounts(unitamount)}
     ELSE IF logicalCredit > (highestBuyPrice + unitprice) \div 2
       THEN {Decision(AddOrder(TradeTypeBuy, a,
                               IF highestBuyPrice = 0 THEN unitprice
                               ELSE (highestBuyPrice + unitprice) \div 2), unitprice) :
               a \in RandomAmounts(unitamount)}
     ELSE {Decision(NoTask, IF latestTradePrice > 0
                             THEN (latestTradePrice + unitprice) \div 2
                             ELSE unitprice)}

\* UpdateOrderTask: the case of its switch that fires, numbered 1..8 in the order
\* of the source (8 is default), and 0 when it returns before the switch
Branch ==
  LET logicalCredit == credit - resvedCredit
      logicalIsu == isu - resvedIsu
  IN IF IsRetired \/ ~UpdateGate THEN 0
     ELSE IF AtCap(orders) THEN 1
     ELSE IF Len(orders) = 0 /\ logicalIsu > unitamount THEN 2
     ELSE IF Len(orders) = 0 THEN 3
     ELSE IF lowestSellPrice > 0 /\ lowestSellPrice < unitprice
             /\ lowestSellPrice <= logicalCredit THEN 4
     ELSE IF highestBuyPrice > 0 /\ highestBuyPrice > unitprice /\ logicalIsu > 0 THEN 5
     ELSE IF logicalIsu > unitamount THEN 6
     ELSE IF logicalCredit > (highestBuyPrice + unitprice) \div 2 THEN 7
     ELSE 8

\* a faulty variant of PolicyUnlock: actionLock is kept through the pushes
PolicyUnlockMutant(w) == w

\* UpdateOrderTask: defer i.actionLock.Unlock(), run when it returns to FixNextTask
PolicyUnlock(w) == Free

\* RandomInvestor.FixNextTask: UpdateOrderTask under actionLock, then the pushes
PolicyBody(w) ==
  /\ Running(w, "locked", "FixNextTask")
  /\ actionLock' = PolicyUnlock(w)
  /\ \E d \in UpdateOrderTask :
       /\ unitprice' = d.unitprice
       /\ IF d.task = NoTask
            THEN Return(w, "none", ExecScore("none", 0), "none", NoError)
            ELSE /\ workers' = [workers EXCEPT ![w].pc = "push",
                                               ![w].push = <<d.task, UpdateOrders>>]
                 /\ UNCHANGED last
  /\ UNCHANGED <<econVars, orders, marketVars, isSignin, isStarted, lastCursor,
                 pollingTime, lastOrder, taskStack, paramVars, pollingLock, taskLock,
                 retired, now, serverVars, schedVars>>

\* -------------------------------------------------------------- environment

\* the clock advances
Tick ==
  /\ Alive
  /\ now < cfg.maxTime
  /\ now' = now + 1
  /\ UNCHANGED <<investorVars, lockVars, retired, serverVars, schedVars, workers,
                 last>>

\* the client is retired by the benchmark; retirement is terminal
Retire ==
  /\ Alive
  /\ cfg.retire
  /\ ~retired
  /\ retired' = TRUE
  /\ UNCHANGED <<investorVars, lockVars, now, serverVars, schedVars, workers,
                 last>>

\* the exchange settles an open order against another user's order at its price;
\* a buy is settled only when the bank can reserve its cost
Trade(n) ==
  /\ Alive
  /\ n \in cfg.env
  /\ IsOpen(sorders[n])
  /\ sorders[n].Type = TradeTypeBuy => sorders[n].Amount * sorders[n].Price <= BankCredit
  /\ sorders' = [sorders EXCEPT ![n].Trade = sorders[n].Price, ![n].ClosedAt = TRUE]
  /\ UNCHANGED <<investorVars, lockVars, retired, now, registered, schedVars, workers,
                 last>>

\* the exchange closes an open order by itself (a buy whose bank reservation
\* failed; for a sell, an exchange that loses the order)
AutoClose(n) ==
  /\ Alive
  /\ n \in cfg.env
  /\ IsOpen(sorders[n])
  /\ sorders' = [sorders EXCEPT ![n].ClosedAt = TRUE]
  /\ UNCHANGED <<investorVars, lockVars, retired, now, registered, schedVars, workers,
                 last>>

\* what Handler.DeleteOrders finds for an id: no session, the order of another
\* user, no such order, a closed order or an open one
Found(id) ==
  IF ~isSignin THEN "unauthenticated"
  ELSE IF id = OtherUsersOrder THEN "other"
  ELSE IF id \notin 1..Len(sorders) THEN "missing"
  ELSE IF sorders[id].ClosedAt THEN "closed"
  ELSE "open"

\* a request DELETE /order/:id in the investor's session, answered by
\* Handler.DeleteOrders: the order is closed when there is no error, and the
\* answer carries the status given to handleError
DeleteOrdersRequest(id) ==
  /\ Alive
  /\ id \in cfg.requests
  /\ LET e == DeleteOrdersError(id) IN
     /\ sorders' = (IF e = NoError THEN [sorders EXCEPT ![id].ClosedAt = TRUE]
                    ELSE sorders)
     /\ reply' = [id |-> id, found |-> Found(id),
                  status |-> IF e = NoError THEN 200 ELSE e.status,
                  changed |-> (sorders' # sorders)]
  /\ UNCHANGED <<investorVars, lockVars, retired, now, registered, sched, ticks, ret,
                 overlap, runq, workers, last, cfg>>

\* ------------------------------------------------------------ specification

WorkerStep(w) ==
  \/ Pick(w)
  \/ TopRun(w)
  \/ SigninRun(w)
  \/ LockAction(w)
  \/ LockPolling(w)
  \/ SignupBody(w)
  \/ InfoBody(w)
  \/ PushLock(w)
  \/ PushBody(w)
  \/ UpdateOrdersBody(w)
  \/ AddOrderBody(w)
  \/ RemoveOrderBody(w)
  \/ PolicyBody(w)

Next ==
  \/ Start
  \/ NextRetired
  \/ NextLock
  \/ NextBody
  \/ \E w \in cfg.workers : WorkerStep(w)
  \/ Tick
  \/ Retire
  \/ \E n \in 1..Len(sorders) : Trade(n)
  \/ \E n \in 1..Len(sorders) : AutoClose(n)
  \/ \E id \in cfg.requests : DeleteOrdersRequest(id)

Spec == Init /\ [][Next]_vars

\* ------------------------------------------------------------------ claims

\* the step in which the task of this kind that worker w is running returns
Returns(w, kind) ==
  /\ workers[w].pc \in {"ready", "locked", "pushlocked"}
  /\ Cur(w).kind = kind
  /\ \/ workers'[w].pc \in {"idle", "failed", "panic"}
     \/ workers'[w].idx = workers[w].idx + 1

\* the step in which worker w runs the policy decision, and what it proposes
PolicyStep(w) ==
  /\ workers[w].pc = "locked"
  /\ Cur(w).kind = "FixNextTask"
  /\ workers'[w] # workers[w]

Proposed(w) == IF workers'[w].pc = "push" THEN Head(workers'[w].push) ELSE NoTask

OpenOrders(os) == {n \in 1..Len(os) : IsOpen(os[n])}

\* the net credit and inventory of the settled orders of a list
SettledCredit(os) ==
  LET f[n \in 0..Len(os)] ==
        IF n = 0 THEN 0
        ELSE f[n-1] + (IF os[n].Trade = 0 THEN 0
                       ELSE IF os[n].Type = TradeTypeSell THEN os[n].Amount * os[n].Trade
                       ELSE 0 - os[n].Amount * os[n].Trade)
  IN f[Len(os)]

SettledIsu(os) ==
  LET f[n \in 0..Len(os)] ==
        IF n = 0 THEN 0
        ELSE f[n-1] + (IF os[n].Trade = 0 THEN 0
                       ELSE IF os[n].Type = TradeTypeSell THEN 0 - os[n].Amount
                       ELSE os[n].Amount)
  IN f[Len(os)]

Kinds(seq) == [n \in 1..Len(seq) |-> seq[n].kind]

\* C1: after every successful run of UpdateOrders the available credit
\* (credit - resvedCredit) and the available inventory (isu - resvedIsu) are
\* not negative.
C1_AvailableNonNegative ==
  [][\A w \in WorkerIds :
       (Returns(w, "UpdateOrders") /\ last'.err = "none")
         => (credit' - resvedCredit' >= 0 /\ isu' - resvedIsu' >= 0)]_vars

\* C2: a serial composite executes its tasks in the order they were added,
\* stops at the first task that fails and never executes a later one; the
\* composite of Start is Top, Info, Signup, Signin, UpdateOrders and the policy
\* decision, a composite of Next begins with Info and ends with the policy
\* decision.
C2_Executed ==
  \A w \in WorkerIds :
    LET r == workers[w] IN
    r.pc # "idle" =>
      /\ Len(r.log) <= Len(r.comp)
      /\ r.log = SubSeq(Kinds(r.comp), 1, Len(r.log))
      /\ r.pc \in {"failed", "panic"} => Len(r.log) = r.idx
      /\ r.pc \notin {"failed", "panic"} => Len(r.log) = r.idx - 1
      /\ IF r.comp[1].kind = "Top"
           THEN Kinds(r.comp) = <<"Top", "Info", "Signup", "Signin", "UpdateOrders",
                                  "FixNextTask">>
           ELSE r.comp[1].kind = "Info" /\ r.comp[Len(r.comp)].kind = "FixNextTask"

C2_Stops ==
  \A w \in WorkerIds :
    /\ (Len(workers'[w].log) = Len(workers[w].log) + 1 /\ last'.err = "error")
         => (workers'[w].pc = "failed" /\ workers'[w].idx = workers[w].idx)
    /\ workers[w].pc = "failed"
         => \/ workers'[w] = workers[w]
            \/ /\ runq # <<>>
               /\ workers'[w] = [comp |-> Head(runq), idx |-> 1, pc |-> "ready",
                                 push |-> <<>>, log |-> <<>>]

C2_SerialAbortsAtFirstFailure == [](C2_Executed) /\ [][C2_Stops]_vars

\* a composite whose third task of six failed after the first two had run
C2_Witness ==
  \E w \in WorkerIds :
    /\ workers[w].pc = "failed"
    /\ workers[w].idx = 3
    /\ Len(workers[w].comp) = 6
    /\ workers[w].log = <<"Top", "Info", "Signup">>

\* C3: an Info task that runs before pollingTime returns score 0 and no error,
\* makes no server call and leaves lowestSellPrice, highestBuyPrice,
\* latestTradePrice, lastCursor, pollingTime and taskStack unchanged.
C3_EarlyInfoIsNoOp ==
  [][\A w \in WorkerIds :
       (/\ workers[w].pc = "locked"
        /\ Cur(w).kind = "Info"
        /\ now < pollingTime
        /\ workers'[w] # workers[w])
         => /\ Returns(w, "Info")
            /\ last'.kind = "Info"
            /\ last'.err = "none"
            /\ last'.score = 0
            /\ last'.call = "none"
            /\ UNCHANGED <<marketVars, lastCursor, pollingTime, taskStack>>]_vars

\* an Info of a live investor has just returned without a call, before pollingTime
C3_Witness ==
  /\ last.kind = "Info"
  /\ last.call = "none"
  /\ ~retired
  /\ now < pollingTime

\* C4 as stated: a non-retired investor with no open order (whatever it placed
\* before) and inventory above unitamount is proposed a sell of unitamount at
\* unitprice.
C4_NoOpenOrderSells ==
  [][\A w \in WorkerIds :
       (PolicyStep(w) /\ ~retired /\ OpenOrders(orders) = {} /\ isu > unitamount)
         => Proposed(w) = AddOrder(TradeTypeSell, unitamount, unitprice)]_vars

\* C4: a non-retired investor that has placed no order yet (its order list is
\* empty) and whose available inventory is above unitamount is proposed a sell
\* of unitamount at unitprice, never a buy, and unitprice is kept.
C4_FirstOrderSells ==
  [][\A w \in WorkerIds :
       (PolicyStep(w) /\ ~retired /\ Len(orders) = 0 /\ isu - resvedIsu > unitamount)
         => /\ Proposed(w) = AddOrder(TradeTypeSell, unitamount, unitprice)
            /\ unitprice' = unitprice]_vars

\* the policy has just proposed the first sell of an investor without orders
C4_Witness ==
  \E w \in WorkerIds :
    /\ workers[w].pc = "push"
    /\ Cur(w).kind = "FixNextTask"
    /\ workers[w].push = <<AddOrder(TradeTypeSell, unitamount, unitprice), UpdateOrders>>
    /\ Len(orders) = 0
    /\ isu - resvedIsu > unitamount
    /\ ~retired

\* the first open order of the largest margin among the open orders
MaxMarginOpen(os) ==
  CHOOSE n \in OpenOrders(os) :
    /\ \A m \in OpenOrders(os) : Margin(os[m]) <= Margin(os[n])
    /\ \A m \in OpenOrders(os) : m < n => Margin(os[m]) < Margin(os[n])

\* C5: a non-retired investor with exactly OrderCap open orders is proposed the
\* cancellation of the first open order of the largest margin.
C5_CapCancelsMaxMargin ==
  [][\A w \in WorkerIds :
       (PolicyStep(w) /\ ~retired /\ Cardinality(OpenOrders(orders)) = OrderCap)
         => Proposed(w) = RemoveOrder(MaxMarginOpen(orders))]_vars

C7_BalancesAreSettledNet ==
  [][\A w \in WorkerIds :
       (Returns(w, "UpdateOrders") /\ last'.err = "none")
         => /\ credit' = defcredit + SettledCredit(orders')
            /\ isu' = defisu + SettledIsu(orders')
            /\ SettledCredit(orders') = SettledCredit(sorders)
            /\ SettledIsu(orders') = SettledIsu(sorders)]_vars

\* an UpdateOrders has succeeded over a list that already held a settled order
C7_Witness ==
  /\ last.kind = "UpdateOrders"
  /\ last.err = "none"
  /\ last.pre > 0
  /\ credit # defcredit
  /\ credit = defcredit + SettledCredit(orders)

\* the open local sells that the answer of GetOrders does not hold
MissingSells(os, resp) ==
  {n \in 1..Len(os) : /\ os[n].Type = TradeTypeSell
                      /\ IsOpen(os[n])
                      /\ FindOrder(resp, os[n].ID) = 0}

\* C8: an UpdateOrders whose GetOrders answer lacks an open local sell that
\* the investor has not cancelled returns an error and leaves that order in the
\* list, not closed.
C8_MissingSellFails ==
  [][\A w \in WorkerIds :
       (/\ Returns(w, "UpdateOrders")
        /\ last'.msg = ""
        /\ MissingSells(orders, GetOrdersList) # {})
         => /\ last'.err = "error"
            /\ Len(orders') = Len(orders)
            /\ \A n \in MissingSells(orders, GetOrdersList) : orders'[n] = orders[n]]_vars

\* C9: a call of Next on a retired investor returns no task and changes neither
\* taskStack nor any other field of the investor; no composite is issued.
C9_RetiredNextIsNoOp ==
  [][(retired /\ ticks' = ticks + 1)
       => (ret' = "nil" /\ runq' = runq /\ UNCHANGED investorVars)]_vars

\* Next has returned nil to a retired investor whose queue holds tasks
C9_Witness ==
  /\ retired
  /\ ret = "nil"
  /\ taskStack # <<>>

\* C10: a call of Next on a live investor issues the composite Info, the queued
\* tasks in the order they were pushed, the policy decision, and empties
\* taskStack; taskStack changes in no other way than by that and by the append
\* of one pushed task under taskLock, and an issued composite is only ever taken
\* once from the pool's queue: no pushed task is lost or issued twice.
C10_Drains ==
  /\ runq' = Append(runq, <<Info>> \o taskStack \o <<FixNextTask>>)
  /\ taskStack' = <<>>
  /\ ret' = "task"

C10_Pushes ==
  \E w \in WorkerIds :
    /\ workers[w].pc = "pushlocked"
    /\ taskLock = w
    /\ taskStack' = Append(taskStack, Head(workers[w].push))
    /\ workers'[w].push = Tail(workers[w].push) \/ workers'[w].push = <<>>
    /\ runq' = runq

C10_Step ==
  /\ (sched = "locked" /\ sched' = "idle" /\ ~retired) => C10_Drains
  /\ taskStack' # taskStack => (C10_Drains \/ C10_Pushes)
  /\ runq' # runq =>
       \/ isStarted' # isStarted
       \/ C10_Drains
       \/ \E w \in WorkerIds : workers'[w].comp = Head(runq) /\ runq' = Tail(runq)

C10_Exclusive ==
  /\ sched = "locked" => taskLock = Scheduler
  /\ \A w \in WorkerIds : workers[w].pc = "pushlocked" => taskLock = w

C10_EveryPushedTaskOnce == [](C10_Exclusive) /\ [][C10_Step]_vars

\* Next drained the queue between the two pushes of one policy decision: the
\* placement is in the issued composite, the reconciliation is left queued
C10_Witness ==
  /\ runq # <<>>
  /\ Kinds(Head(runq)) = <<"Info", "AddOrder", "FixNextTask">>
  /\ taskStack = <<UpdateOrders>>
  /\ ret = "task"

\* C11: a Signup the exchange rejects because the bank id is already registered
\* (the rejection Handler.Signup produces) returns no error, and the composite
\* goes on to Signin.
C11_DuplicateSignupSucceeds ==
  [][\A w \in WorkerIds :
       (Returns(w, "Signup") /\ last'.call = "Signup" /\ last'.msg = SignupError.msg
          /\ registered)
         => /\ last'.err = "none"
            /\ workers'[w].pc = "ready"
            /\ workers'[w].comp[workers'[w].idx].kind = "Signin"]_vars

\* C12: a RemoveOrder whose DeleteOrders is answered 404 returns no error and
\* score 0 and leaves the local order list as it was.
C12_NotFoundIsBenign ==
  [][\A w \in WorkerIds :
       (Returns(w, "RemoveOrder") /\ last'.call = "DeleteOrders" /\ last'.status = 404)
         => /\ last'.err = "none"
            /\ last'.score = 0
            /\ workers'[w].pc # "failed"
            /\ orders' = orders]_vars

\* a RemoveOrder has just been answered 404
C12_Witness ==
  /\ last.kind = "RemoveOrder"
  /\ last.call = "DeleteOrders"
  /\ last.status = 404

\* the locks of the investor that h holds
Held(h) ==
  (IF actionLock = h THEN {"actionLock"} ELSE {}) \cup
  (IF pollingLock = h THEN {"pollingLock"} ELSE {}) \cup
  (IF taskLock = h THEN {"taskLock"} ELSE {})

\* C13 as stated: no execution holds two of the investor's locks at a time.
C13_NoTwoLocks ==
  \A h \in WorkerIds \cup {Scheduler} : Cardinality(Held(h)) <= 1

\* C13: no execution holds actionLock together with another lock; the only
\* locks held together are pollingLock and taskLock, by an Info task that
\* took pollingLock first and is inside pushNextTask; Next holds taskLock only.
C13_OnlyInfoNestsTaskLock ==
  /\ Held(Scheduler) \subseteq {"taskLock"}
  /\ \A w \in WorkerIds :
       /\ actionLock = w => Held(w) = {"actionLock"}
       /\ Cardinality(Held(w)) > 1 =>
            /\ Held(w) = {"pollingLock", "taskLock"}
            /\ workers[w].pc = "pushlocked"
            /\ Cur(w).kind = "Info"
       /\ taskLock = w => workers[w].pc = "pushlocked"

\* an Info task holds pollingLock and, inside pushNextTask, taskLock
C13_Witness ==
  \E w \in WorkerIds :
    /\ Held(w) = {"pollingLock", "taskLock"}
    /\ Cur(w).kind = "Info"

\* C14 as stated: with the composites run one after another, the investor never
\* has more than OrderCap open orders, in its own list or at the exchange.
C14_OpenOrdersWithinCap ==
  /\ Cardinality(OpenOrders(orders)) <= OrderCap
  /\ Cardinality(OpenOrders(sorders)) <= OrderCap

\* C14: as long as Next was only ever called after the composite issued before
\* had finished running, the investor has at most OrderCap open orders, in its
\* own list and at the exchange.
C14_WithinCapWithoutOverlap ==
  ~overlap =>
    /\ Cardinality(OpenOrders(orders)) <= OrderCap
    /\ Cardinality(OpenOrders(sorders)) <= OrderCap
    /\ Len(orders) <= OrderCap

\* without any overlap the investor holds OrderCap open orders and the policy
\* has turned to a cancellation
C14_Witness ==
  /\ ~overlap
  /\ Cardinality(OpenOrders(orders)) = OrderCap
  /\ Cardinality(OpenOrders(sorders)) = OrderCap
  /\ \E w \in WorkerIds :
       /\ workers[w].pc = "push"
       /\ Cur(w).kind = "FixNextTask"
       /\ Head(workers[w].push).kind = "RemoveOrder"

\* C15: once the client is retired, a task Info, UpdateOrders, AddOrder,
\* RemoveOrder or policy decision that runs makes no server call, pushes
\* nothing and changes no field of the investor and no order at the exchange.
C15_RetiredTasksDoNothing ==
  [][\A w \in WorkerIds :
       (/\ retired
        /\ workers[w].pc = "locked"
        /\ Cur(w).kind \in {"Info", "UpdateOrders", "AddOrder", "RemoveOrder",
                            "FixNextTask"}
        /\ workers'[w] # workers[w])
         => /\ workers'[w].pc # "push"
            /\ last'.call = "none"
            /\ UNCHANGED <<investorVars, sorders>>]_vars

\* the most recent local order is an unsettled sell and the answer of GetOrders
\* does not end with an order of its id (the empty answer included)
LastSellMismatch(os, resp) ==
  /\ Len(os) > 0
  /\ os[Len(os)].Type = TradeTypeSell
  /\ os[Len(os)].Trade = 0
  /\ (Len(resp) = 0 \/ resp[Len(resp)].ID # os[Len(os)].ID)

\* the step in which worker w's UpdateOrders returns after GetOrders was answered
UpdateOrdersAnswered(w) ==
  /\ Returns(w, "UpdateOrders")
  /\ workers[w].pc = "locked"
  /\ last'.call = "GetOrders"
  /\ last'.msg = ""

\* C16: an UpdateOrders whose most recent local order is an unsettled sell that
\* the answer of GetOrders does not end with, the empty answer included,
\* returns an error without crashing and changes no balance and no reserve.
C16_LastSellMismatchIsError ==
  [][\A w \in WorkerIds :
       (UpdateOrdersAnswered(w) /\ LastSellMismatch(orders, GetOrdersList))
         => (last'.err = "error" /\ UNCHANGED econVars)]_vars

\* the most recent local order is a buy, a settled sell or a sell the investor
\* has cancelled, and the answer of GetOrders does not end with an order of its id
LastOrderExempt(os, resp) ==
  /\ Len(os) > 0
  /\ \/ os[Len(os)].Type = TradeTypeBuy
     \/ os[Len(os)].Trade # 0
     \/ Removed(os[Len(os)])
  /\ (Len(resp) = 0 \/ resp[Len(resp)].ID # os[Len(os)].ID)

\* C17: when the most recent local order is a buy, a settled sell or a sell the
\* investor has cancelled, an answer of GetOrders that ends with another order
\* (or is empty) does not make UpdateOrders fail: with no open sell missing from
\* the answer, UpdateOrders succeeds.
C17_CheckOnlyForOpenSell ==
  [][\A w \in WorkerIds :
       (/\ UpdateOrdersAnswered(w)
        /\ LastOrderExempt(orders, GetOrdersList)
        /\ MissingSells(orders, GetOrdersList) = {})
         => last'.err = "none"]_vars

\* the open local buys that the answer of GetOrders does not hold
MissingBuys(os, resp) ==
  {n \in 1..Len(os) : /\ os[n].Type = TradeTypeBuy
                      /\ IsOpen(os[n])
                      /\ FindOrder(resp, os[n].ID) = 0}

\* the cost of the open buys and the amount of the open sells of a list
OpenBuyCost(os) ==
  LET f[n \in 0..Len(os)] ==
        IF n = 0 THEN 0
        ELSE f[n-1] + (IF IsOpen(os[n]) /\ os[n].Type = TradeTypeBuy
                         THEN os[n].Amount * os[n].Price ELSE 0)
  IN f[Len(os)]

OpenSellAmount(os) ==
  LET f[n \in 0..Len(os)] ==
        IF n = 0 THEN 0
        ELSE f[n-1] + (IF IsOpen(os[n]) /\ os[n].Type = TradeTypeSell
                         THEN os[n].Amount ELSE 0)
  IN f[Len(os)]

\* C18: an UpdateOrders whose answer lacks an open local buy (and that no sell
\* makes fail) marks that buy closed, leaving its other fields, counts it in
\* none of resvedCredit, credit and isu, merges every other order that is in
\* the answer and returns no error.
C18_MissingBuyIsClosed ==
  [][\A w \in WorkerIds :
       (/\ UpdateOrdersAnswered(w)
        /\ MissingBuys(orders, GetOrdersList) # {}
        /\ LastOrderCheck(orders, GetOrdersList) = "ok"
        /\ MissingSells(orders, GetOrdersList) = {})
         => /\ last'.err = "none"
            /\ Len(orders') = Len(orders)
            /\ \A n \in MissingBuys(orders, GetOrdersList) :
                 orders'[n] = [orders[n] EXCEPT !.ClosedAt = TRUE]
            /\ \A n \in 1..Len(orders) :
                 (~Removed(orders[n]) /\ FindOrder(GetOrdersList, orders[n].ID) # 0)
                   => orders'[n] = GetOrdersList[FindOrder(GetOrdersList, orders[n].ID)]
            /\ resvedCredit' = OpenBuyCost(orders')
            /\ credit' = defcredit + SettledCredit(orders')
            /\ isu' = defisu + SettledIsu(orders')]_vars

\* UpdateOrders has succeeded over a list whose first order is a buy closed as
\* missing and whose second order is open
C18_Witness ==
  /\ last.kind = "UpdateOrders"
  /\ last.err = "none"
  /\ Len(orders) = 2
  /\ orders[1].Type = TradeTypeBuy
  /\ Removed(orders[1])
  /\ IsOpen(orders[2])

\* C19: after every successful UpdateOrders resvedCredit is the cost
\* (amount * price) of the buys that are neither settled nor closed and
\* resvedIsu the amount of the sells that are neither settled nor closed,
\* whatever the reserves were before; a second UpdateOrders against the same
\* answer succeeds and yields the same orders, reserves, credit and isu.
C19_ReservesAreOpenOrders ==
  [][\A w \in WorkerIds :
       (Returns(w, "UpdateOrders") /\ last'.err = "none")
         => /\ resvedCredit' = OpenBuyCost(orders')
            /\ resvedIsu' = OpenSellAmount(orders')
            /\ LastOrderCheck(orders', GetOrdersList) = "ok"
            /\ LET again == MergeOrders(orders', GetOrdersList) IN
               /\ ~again.err
               /\ again.orders = orders'
               /\ again.resvedCredit = resvedCredit'
               /\ again.resvedIsu = resvedIsu'
               /\ defcredit + again.tradedCredit = credit'
               /\ defisu + again.tradedIsu = isu']_vars

\* UpdateOrders has succeeded over settled and open orders, changing a reserve
C19_Witness ==
  /\ last.kind = "UpdateOrders"
  /\ last.err = "none"
  /\ SettledCount(orders) > 0
  /\ resvedCredit > 0
  /\ resvedCredit = OpenBuyCost(orders)

\* the positions of a composite that hold the UpdateOrders task queued by Info
PolledAt(comp) == {j \in 1..Len(comp) : comp[j] = PolledUpdateOrders}

\* C20 as stated, its last part: the UpdateOrders task that Info queued is run
\* in the composite Next puts it in: no composite stops before that task.
C20_PolledReconciliationRuns ==
  \A w \in WorkerIds :
    workers[w].pc = "failed" => \A j \in PolledAt(workers[w].comp) : j <= workers[w].idx

C20_InfoStep ==
  \A w \in WorkerIds :
    /\ (workers[w].pc = "locked" /\ Cur(w).kind = "Info" /\ workers'[w] # workers[w])
         => /\ UNCHANGED <<econVars, orders, taskStack>>
            /\ workers'[w].pc = "push"
                 <=> (pollingTime' # pollingTime /\ isSignin /\ TradeCount > lastCursor)
            /\ workers'[w].pc = "push" => workers'[w].push = <<PolledUpdateOrders>>
    /\ (workers[w].pc = "pushlocked" /\ Cur(w).kind = "Info" /\ workers'[w] # workers[w])
         => /\ taskStack' = Append(taskStack, PolledUpdateOrders)
            /\ Returns(w, "Info")
            /\ last'.score = GetInfoScore
            /\ UNCHANGED <<econVars, orders>>

C20_NextStep ==
  (ticks' = ticks + 1 /\ ret' = "task")
    => /\ runq' = Append(runq, <<Info>> \o taskStack \o <<FixNextTask>>)
       /\ taskStack' = <<>>

C20_Placed ==
  /\ \A n \in 1..Len(runq) : \A j \in PolledAt(runq[n]) :
       runq[n][1] = Info /\ runq[n][Len(runq[n])] = FixNextTask /\ 1 < j /\ j < Len(runq[n])
  /\ \A w \in WorkerIds : \A j \in PolledAt(workers[w].comp) :
       LET r == workers[w] IN
       /\ r.comp[1] = Info /\ r.comp[Len(r.comp)] = FixNextTask /\ 1 < j /\ j < Len(r.comp)
       /\ r.idx >= j => (Len(r.log) >= j - 1 /\ r.log[1] = "Info")
       /\ (r.pc = "failed" /\ r.idx < j) => Len(r.log) < j

\* C20: a successful poll that reports traded orders reconciles nothing inline
\* and queues exactly one UpdateOrders task, a poll that reports none queues
\* nothing; the next Next on a live investor puts the queued task in its
\* composite, after Info and before the policy decision, where it runs once the
\* tasks before it have succeeded and not at all when one of them fails.
C20_PolledReconciliationIsDeferred ==
  [](C20_Placed) /\ [][C20_InfoStep /\ C20_NextStep]_vars

\* the UpdateOrders task that Info queued is running in a later composite
C20_Witness ==
  \E w \in WorkerIds :
    /\ workers[w].pc = "locked"
    /\ Cur(w) = PolledUpdateOrders
    /\ workers[w].log[1] = "Info"

\* the composites issued by Start and Next that are queued, running or stopped
Composites ==
  {runq[n] : n \in 1..Len(runq)} \cup {workers[w].comp : w \in WorkerIds}

TradingAction(t) == t.kind \in {"AddOrder", "RemoveOrder"}

\* C21: every execution of the policy decision enqueues nothing or exactly one
\* trading action immediately followed by one UpdateOrders, so every composite
\* holds, right after each trading action, the UpdateOrders of that decision, and
\* holds the next decision after it.
C21_ActionThenReconciliation ==
  /\ \A w \in WorkerIds :
       (workers[w].pc \in {"push", "pushlocked"} /\ Cur(w).kind = "FixNextTask")
         => \/ /\ Len(workers[w].push) = 2
               /\ TradingAction(workers[w].push[1])
               /\ workers[w].push[2] = UpdateOrders
            \/ workers[w].push = <<UpdateOrders>>
  /\ \A c \in Composites : \A j \in 1..Len(c) :
       TradingAction(c[j])
         => /\ j + 1 <= Len(c)
            /\ c[j + 1] = UpdateOrders
            /\ \E k \in (j + 2)..Len(c) : c[k] = FixNextTask

\* C22: on every tick of a non-retired investor the rule ladder is evaluated and
\* exactly one of its eight branches fires, whatever the time since the last
\* order placement; the first seven branches propose a trading action.
C22_LadderEveryTick ==
  [][\A w \in WorkerIds :
       (PolicyStep(w) /\ ~IsRetired)
         => /\ Branch \in 1..8
            /\ (Branch \in 1..7) = TradingAction(Proposed(w))]_vars

\* C23: once an order of an investor at the cap has been cancelled or settled,
\* so that fewer than OrderCap of its orders are open, the decision is no longer
\* confined to the cancellation branch: an evaluated ladder does not propose a
\* RemoveOrder.
C23_CapacityFreed ==
  [][\A w \in WorkerIds :
       (PolicyStep(w) /\ ~IsRetired /\ UpdateGate
          /\ Cardinality(OpenOrders(orders)) < OrderCap)
         => Proposed(w).kind # "RemoveOrder"]_vars

TaskKinds ==
  {"Top", "Signup", "Signin", "Info", "UpdateOrders", "AddOrder", "RemoveOrder",
   "FixNextTask"}

\* C24: when a task fails, the investor's state (order list with each order's
\* fields, credit, inventory, reserves, market view, cursor) is the state left by
\* the last successful task: the failing task has changed none of it.
C24_FailedTaskLeavesState ==
  [][\A w \in WorkerIds :
       ((\E k \in TaskKinds : Returns(w, k)) /\ workers'[w].pc \in {"failed", "panic"})
         => UNCHANGED <<orders, econVars, marketVars, lastCursor>>]_vars

\* C25: Handler.DeleteOrders answers 404 when the order id does not exist, when
\* the order belongs to another user and when the order is already closed, and in
\* these cases it changes the closed_at of no order (so a closed_at, once set, is
\* not changed by a later DeleteOrders).
C25_DeleteOrdersAnswers404 ==
  reply.found \in {"missing", "other", "closed"}
    => (reply.status = 404 /\ ~reply.changed)

\* the executions that take locks: the workers and the scheduler calling Next
Agents == WorkerIds \cup {Scheduler}

\* the lock an execution is requesting (it is at a Lock() call), "none" otherwise
Wants(a) ==
  IF a = Scheduler
    THEN IF sched = "idle" /\ isStarted /\ ~IsRetired /\ ticks < cfg.maxTicks
           THEN "taskLock" ELSE "none"
  ELSE IF workers[a].pc = "push" THEN "taskLock"
  ELSE IF workers[a].pc = "ready" /\ Cur(a).kind = "Info" THEN "pollingLock"
  ELSE IF workers[a].pc = "ready"
          /\ Cur(a).kind \in {"Signup", "UpdateOrders", "AddOrder", "RemoveOrder",
                               "FixNextTask"}
    THEN "actionLock"
  ELSE "none"

HolderOf(lock) ==
  IF lock = "taskLock" THEN taskLock
  ELSE IF lock = "pollingLock" THEN pollingLock
  ELSE IF lock = "actionLock" THEN actionLock
  ELSE Free

\* the execution that a waits for: the holder of the lock it requests, Free when
\* it requests none or the lock is free
WaitsFor(a) == IF a = Free THEN Free ELSE HolderOf(Wants(a))

\* every held lock is held by an execution inside the section the lock guards:
\* the body of a task under actionLock, Info up to the end of its push under
\* pollingLock, the append of pushNextTask or the body of Next under taskLock
HoldersProceed ==
  /\ actionLock # Free
       => /\ actionLock \in WorkerIds
          /\ workers[actionLock].pc = "locked"
          /\ Cur(actionLock).kind # "Info"
  /\ pollingLock # Free
       => /\ pollingLock \in WorkerIds
          /\ workers[pollingLock].pc \in {"locked", "push", "pushlocked"}
          /\ Cur(pollingLock).kind = "Info"
  /\ taskLock # Free
       => \/ taskLock = Scheduler /\ sched = "locked"
          \/ taskLock \in WorkerIds /\ workers[taskLock].pc = "pushlocked"

\* no execution waits, directly or through other holders, for a lock that it
\* holds itself
NoCircularWait ==
  \A a \in Agents :
    /\ WaitsFor(a) # a
    /\ WaitsFor(WaitsFor(a)) # a
    /\ WaitsFor(WaitsFor(WaitsFor(a))) # a

\* C26: no interleaving of one investor's operations deadlocks: whenever a lock
\* is requested, its holder is inside the section the lock guards and is not
\* waiting, directly or through other holders, for a lock held by the requester.
C26_NoDeadlock == HoldersProceed /\ NoCircularWait

\* a poll that holds pollingLock waits for taskLock, which the other worker
\* holds in pushNextTask
C26_Witness ==
  \E a \in WorkerIds, b \in WorkerIds :
    /\ a # b
    /\ pollingLock = a
    /\ Wants(a) = "taskLock"
    /\ WaitsFor(a) = b

====
